---- MODULE Spec2Model ----
(***************************************************************************)
(* Model of plex_black_suspect_analyzer.py: the temporal suspicion check,  *)
(* the thumbnail blackness check and the per-item loop of main().          *)
(*                                                                         *)
(* Python strings are sequences of one-character strings.  Two characters  *)
(* outside ASCII are written by name: "SUP2" is U+00B2 SUPERSCRIPT TWO and *)
(* "AR3" is U+0663 ARABIC-INDIC DIGIT THREE.                               *)
(***************************************************************************)
EXTENDS Integers, Sequences, FiniteSets, TLC

VARIABLES pc, listing, items, idx, cfg, error, time_checks, evals, fetches, calls, arg, ret

vars == <<pc, listing, items, idx, cfg, error, time_checks, evals, fetches, calls, arg, ret>>

(***************************************************************************)
(* Bounds                                                                  *)
(***************************************************************************)
MaxStrLen == 2
MaxThumbLen == 4
MaxItems == 2
NumLevels == 2
MaxCount == 2

(***************************************************************************)
(* Strings                                                                 *)
(***************************************************************************)
StringsOver(alphabet, n) == UNION {[1..k -> alphabet] : k \in 0..n}

\* str.isdigit(): characters with the Unicode property Numeric_Type=Digit or
\* Decimal; the superscript digits are digits but not decimals.
DecimalValue(c) ==
    CASE c = "0" -> 0 [] c = "1" -> 1 [] c = "2" -> 2 [] c = "3" -> 3
      [] c = "4" -> 4 [] c = "5" -> 5 [] c = "6" -> 6 [] c = "7" -> 7
      [] c = "8" -> 8 [] c = "9" -> 9 [] c = "AR3" -> 3

DecimalChars == {"0", "1", "2", "3", "4", "5", "6", "7", "8", "9", "AR3"}

DigitChars == DecimalChars \cup {"SUP2"}

isdigit(s) == Len(s) > 0 /\ \A i \in 1..Len(s) : s[i] \in DigitChars

\* int(s) for a string that passed isdigit(): the decimal value, or ValueError
\* when a character is not a decimal digit.
RECURSIVE DecimalOf(_)
DecimalOf(s) ==
    IF Len(s) = 0 THEN 0
    ELSE 10 * DecimalOf(SubSeq(s, 1, Len(s) - 1)) + DecimalValue(s[Len(s)])

int_raises(s) == Len(s) = 0 \/ \E i \in 1..Len(s) : s[i] \notin DecimalChars

\* str.lower() on the characters used for thumbnail references.
LowerChar(c) ==
    CASE c = "N" -> "n" [] c = "O" -> "o" [] c = "E" -> "e" [] OTHER -> c

lower(s) == [i \in 1..Len(s) |-> LowerChar(s[i])]

\* needle in s
contains(s, needle) ==
    \E i \in 1..Len(s) :
        /\ i + Len(needle) - 1 <= Len(s)
        /\ SubSeq(s, i, i + Len(needle) - 1) = needle

startswith(s, prefix) ==
    Len(s) >= Len(prefix) /\ SubSeq(s, 1, Len(prefix)) = prefix

(***************************************************************************)
(* datetime.fromtimestamp: the naive local time of a Unix timestamp, as    *)
(* seconds on the local wall clock.  The zone is the environment's: UTC,   *)
(* or a zone whose UTC offset changes at one instant (daylight saving).    *)
(***************************************************************************)
\* The last instant of year 9999 is 253402300799; beyond it fromtimestamp
\* raises (ValueError, OverflowError or OSError by magnitude).  The limit is
\* compared digit by digit, on the numeral without its leading zeros.
MaxTimestampDigits == <<2, 5, 3, 4, 0, 2, 3, 0, 0, 7, 9, 9>>

RECURSIVE StripZeros(_)
StripZeros(d) ==
    IF Len(d) > 0 /\ d[1] = 0 THEN StripZeros(Tail(d)) ELSE d

RECURSIVE LexGreater(_, _)
LexGreater(a, b) ==
    IF Len(a) = 0 THEN FALSE
    ELSE IF a[1] # b[1] THEN a[1] > b[1]
    ELSE LexGreater(Tail(a), Tail(b))

Digits(s) == [i \in 1..Len(s) |-> DecimalValue(s[i])]

UTC == [at |-> 0, before |-> 0, after |-> 0]

TransitionInstants == {50, 1003, 1699164000}

Zones ==
    {UTC}
    \cup {[at |-> t, before |-> 0 - 14400, after |-> 0 - 18000] : t \in TransitionInstants}
    \cup {[at |-> t, before |-> 0 - 18000, after |-> 0 - 14400] : t \in TransitionInstants}

utcoffset(tz, ts) == IF ts < tz.at THEN tz.before ELSE tz.after

fromtimestamp_raises(s) ==
    LET d == StripZeros(Digits(s))
    IN  \/ Len(d) > Len(MaxTimestampDigits)
        \/ Len(d) = Len(MaxTimestampDigits) /\ LexGreater(d, MaxTimestampDigits)

fromtimestamp(tz, ts) == ts + utcoffset(tz, ts)

(***************************************************************************)
(* check_time_diff                                                         *)
(***************************************************************************)
Returned(v) == [exc |-> "none", val |-> v]

Raised(e) == [exc |-> e, val |-> FALSE]

check_time_diff(added_str, updated_str, threshold_sec, tz) ==
    IF ~(isdigit(added_str) /\ isdigit(updated_str)) THEN Returned(FALSE)
    ELSE IF int_raises(added_str) \/ int_raises(updated_str) THEN Raised("ValueError")
    ELSE IF fromtimestamp_raises(updated_str) \/ fromtimestamp_raises(added_str)
         THEN Raised("ValueError")
    ELSE LET added_ts == DecimalOf(added_str)
             updated_ts == DecimalOf(updated_str)
             diff_sec == fromtimestamp(tz, updated_ts) - fromtimestamp(tz, added_ts)
         IN  Returned(diff_sec < threshold_sec)

\* time_diff_sec = args.time_diff_minutes * 60.0
TimeDiffMinutes == {0, 1, 3}

time_diff_sec(minutes) == minutes * 60

TsAlphabet == {"0", "1", "8", "a", "SUP2"}

ExampleTimestamps ==
    { <<"1","0","0","0">>, <<"1","0","0","5">>, <<"1","0","1","0">>,
      <<"5","0","0","0">>, <<"AR3">>, <<"-","5">>,
      <<"1","6","9","9","1","6","2","2","0","0">>,
      <<"1","6","9","9","1","6","5","8","0","0">>,
      <<"2","5","3","4","0","2","3","0","0","8","0","0">> }

TimestampStrings == StringsOver(TsAlphabet, MaxStrLen) \cup ExampleTimestamps

(***************************************************************************)
(* Specification of check_time_diff alone                                  *)
(***************************************************************************)
Idle ==
    /\ pc = "idle" /\ listing = "none" /\ items = <<>> /\ idx = 0 /\ cfg = <<>> /\ error = "none"
    /\ time_checks = <<>> /\ evals = <<>> /\ fetches = <<>> /\ calls = <<>>

TimeInit ==
    /\ Idle
    /\ arg \in [added_str : TimestampStrings, updated_str : TimestampStrings,
                minutes : TimeDiffMinutes, tz : Zones]
    /\ ret = <<>>

CallCheckTimeDiff ==
    /\ pc = "idle"
    /\ ret = <<>>
    /\ ret' = check_time_diff(arg.added_str, arg.updated_str,
                              time_diff_sec(arg.minutes), arg.tz)
    /\ pc' = "returned"
    /\ UNCHANGED <<listing, items, idx, cfg, error, time_checks, evals, fetches, calls, arg>>

TimeNext == CallCheckTimeDiff

TimeSpec == TimeInit /\ [][TimeNext]_vars

(***************************************************************************)
(* requests: what a call does with the server's behaviour and its timeout. *)
(* A timeout is a set: {} is requests' default of None (wait forever).     *)
(***************************************************************************)
ServerStatuses == {"ok", "HTTPError", "ConnectionError", "silent"}

NoTimeout == {}

LibraryTimeout == 10

ThumbTimeout == 10

\* requests.get/put followed by raise_for_status()
RequestOutcome(status, timeout) ==
    CASE status = "ok" -> "ok"
      [] status = "HTTPError" -> "RequestException"
      [] status = "ConnectionError" -> "RequestException"
      [] status = "silent" -> IF timeout = NoTimeout THEN "blocks" ELSE "RequestException"

(***************************************************************************)
(* check_black_image                                                       *)
(***************************************************************************)
Levels == 0..(NumLevels - 1)

Histograms == [Levels -> 0..MaxCount]

RECURSIVE SumUpTo(_, _)
SumUpTo(hist, level) ==
    IF level < 0 THEN 0 ELSE hist[level] + SumUpTo(hist, level - 1)

\* sum(hist)
sum(hist) == SumUpTo(hist, NumLevels - 1)

\* A threshold is the fraction num/den, den > 0.
Fraction(n, d) == [num |-> n, den |-> d]

\* Variant: the comparison is strict.
ratio_exceeded(black_pixels, total_pixels, threshold) ==
    black_pixels * threshold.den > threshold.num * total_pixels

\* black_ratio >= blackness_threshold, black_ratio = black_pixels / total_pixels
ratio_reached(black_pixels, total_pixels, threshold) ==
    black_pixels * threshold.den >= threshold.num * total_pixels

\* Variant: the reference is searched without lowering its case.
thumb_missing_case_sensitive(thumb_url) ==
    Len(thumb_url) = 0 \/ contains(thumb_url, <<"n", "o", "n", "e">>)

\* not thumb_url or "none" in thumb_url.lower()
thumb_missing(thumb_url) ==
    Len(thumb_url) = 0 \/ contains(lower(thumb_url), <<"n", "o", "n", "e">>)

BaseUrl == <<"http://server:port">>

thumb_url_full(thumb_url) ==
    IF startswith(thumb_url, <<"/">>) THEN BaseUrl \o thumb_url ELSE thumb_url

\* Variant: a failed fetch answers not black.
on_fetch_failure_not_black == FALSE

\* except requests.RequestException: return True
on_fetch_failure == TRUE

\* Variant: undecodable bytes answer black.
on_decode_failure_black == TRUE

\* except Exception (Image.open / convert): return False
on_decode_failure == FALSE

\* The result of the call and the request it issued, if any.
BlackResult(b, reqs) == [black |-> b, requests |-> reqs]

check_black_image(thumb_url, pil_available, response, blackness_threshold) ==
    IF thumb_missing(thumb_url) THEN BlackResult(FALSE, <<>>)
    ELSE IF ~pil_available THEN BlackResult(FALSE, <<>>)
    ELSE LET url == thumb_url_full(thumb_url)
             outcome == RequestOutcome(response.status, {ThumbTimeout})
             req == <<[url |-> url, outcome |-> outcome,
                       decodes |-> outcome = "ok" /\ response.decodes]>>
         IN  IF outcome # "ok"
             THEN BlackResult(on_fetch_failure, req)
             ELSE IF ~response.decodes THEN BlackResult(on_decode_failure, req)
             ELSE LET hist == response.hist
                      total_pixels == sum(hist)
                  IN  IF total_pixels = 0 THEN BlackResult(FALSE, req)
                      ELSE BlackResult(ratio_reached(hist[0], total_pixels,
                                                     blackness_threshold), req)

EmptyHist == [l \in Levels |-> 0]

ThumbResponses ==
    {[status |-> "ok", decodes |-> TRUE, hist |-> h] : h \in Histograms}
    \cup {[status |-> st, decodes |-> FALSE, hist |-> EmptyHist] : st \in ServerStatuses}

BlacknessThresholds ==
    {Fraction(0 - 1, 2), Fraction(0, 1), Fraction(1, 2), Fraction(95, 100),
     Fraction(1, 1), Fraction(3, 2)}

ThumbAlphabet == {"/", "N", "n", "o", "e"}

ThumbStrings == StringsOver(ThumbAlphabet, MaxThumbLen)

(***************************************************************************)
(* Specification of check_black_image alone                                *)
(***************************************************************************)
BlackInit ==
    /\ Idle
    /\ arg \in [thumb_url : ThumbStrings, pil_available : BOOLEAN,
                response : ThumbResponses, blackness_threshold : BlacknessThresholds]
    /\ ret = <<>>

CallCheckBlackImage ==
    /\ pc = "idle"
    /\ ret = <<>>
    /\ ret' = check_black_image(arg.thumb_url, arg.pil_available, arg.response,
                                arg.blackness_threshold)
    /\ pc' = "returned"
    /\ UNCHANGED <<listing, items, idx, cfg, error, time_checks, evals, fetches, calls, arg>>

BlackNext == CallCheckBlackImage

BlackSpec == BlackInit /\ [][BlackNext]_vars

(***************************************************************************)
(* fetch_library_items and main                                            *)
(***************************************************************************)
\* One <Video> element: (added_at, updated_at, thumb); its rating_key is its
\* position in the listing and its title is only logged.
Video(a, u, t) == [added_at |-> a, updated_at |-> u, thumb |-> t]

ListedTimestamps ==
    { << <<"1","0","0","0">>, <<"1","0","1","0">> >>,
      << <<"1","0","0","0">>, <<"5","0","0","0">> >> }

ListedThumbs == { <<>>, <<"/", "t">>, <<"/", "N", "o", "n", "E">> }

Videos ==
    {Video(p[1], p[2], t) : p \in ListedTimestamps, t \in ListedThumbs}
    \cup {Video(<<"SUP2">>, <<"1","0","1","0">>, <<"/", "t">>)}

Catalogs == UNION {[1..n -> Videos] : n \in 0..MaxItems}

\* What the server answers to the listing request; an answer with status ok
\* carries a body that is well-formed XML or not.
\* The thumbnail answers tried in a run: an all-black image, an image with no
\* black pixel, an image of no pixel, undecodable bytes, and the failures.
AllAt(level) == [l \in Levels |-> IF l = level THEN MaxCount ELSE 0]

ListedThumbResponses ==
    {[status |-> "ok", decodes |-> TRUE, hist |-> h] :
        h \in {AllAt(0), AllAt(NumLevels - 1), EmptyHist}}
    \cup {[status |-> st, decodes |-> FALSE, hist |-> EmptyHist] : st \in ServerStatuses}

LibraryResponses ==
    {[status |-> "ok", wellformed |-> TRUE, videos |-> c] : c \in Catalogs}
    \cup {[status |-> st, wellformed |-> FALSE, videos |-> <<>>] : st \in ServerStatuses}

\* The items returned, or the exception that leaves the function.
fetch_library_items(response) ==
    IF RequestOutcome(response.status, {LibraryTimeout}) # "ok"
    THEN [exc |-> "none", logged |-> "RequestException", items |-> <<>>]
    ELSE IF ~response.wellformed
         THEN [exc |-> "ParseError", logged |-> "none", items |-> <<>>]
         ELSE [exc |-> "none", logged |-> "none", items |-> response.videos]

\* put_analyze / put_refresh: requests.put without a timeout; a
\* RequestException is caught and logged.
put_analyze(status) == RequestOutcome(status, NoTimeout)

put_refresh(status) == RequestOutcome(status, NoTimeout)

\* Variant: a forced check re-analyzes whatever the blackness.
dispatch_ignoring_black(suspicious, black, force_black_check) ==
    IF suspicious
    THEN IF black THEN "put_analyze" ELSE "put_refresh"
    ELSE IF force_black_check THEN "put_analyze" ELSE "none"

\* The branch of main taken on (suspicious, black, force_black_check).
dispatch(suspicious, black, force_black_check) ==
    IF suspicious
    THEN IF black THEN "put_analyze" ELSE "put_refresh"
    ELSE IF force_black_check /\ black THEN "put_analyze" ELSE "none"

Configs ==
    [force_black_check : BOOLEAN, minutes : {3},
     blackness_threshold : {Fraction(0, 1), Fraction(95, 100), Fraction(3, 2)},
     pil_available : BOOLEAN,
     tz : {UTC}]

Init ==
    /\ pc = "start"
    /\ listing = "none"
    /\ items = <<>>
    /\ idx = 0
    /\ cfg \in Configs
    /\ error = "none"
    /\ time_checks = <<>>
    /\ evals = <<>>
    /\ fetches = <<>>
    /\ calls = <<>>
    /\ arg = <<>>
    /\ ret = <<>>

\* items = fetch_library_items(...)
FetchLibraryItems ==
    /\ pc = "start"
    /\ \E response \in LibraryResponses :
         LET r == fetch_library_items(response)
         IN  /\ items' = r.items
             /\ error' = r.exc
             /\ listing' = IF r.exc # "none" THEN r.exc
                           ELSE IF r.logged # "none" THEN r.logged ELSE "ok"
             /\ pc' = IF r.exc # "none" THEN "crashed" ELSE "loop"
    /\ idx' = 1
    /\ UNCHANGED <<cfg, time_checks, evals, fetches, calls, arg, ret>>

\* One iteration of the loop over items.
ProcessItem ==
    /\ pc = "loop"
    /\ idx <= Len(items)
    /\ time_checks' = Append(time_checks, idx)
    /\ LET item == items[idx]
           t == check_time_diff(item.added_at, item.updated_at,
                                time_diff_sec(cfg.minutes), cfg.tz)
           suspicious == t.val
           do_black_check == suspicious \/ cfg.force_black_check
       IN  IF t.exc # "none"
           THEN /\ pc' = "crashed"
                /\ error' = t.exc
                /\ UNCHANGED <<idx, evals, fetches, calls>>
           ELSE \E response \in ListedThumbResponses, put_status \in ServerStatuses :
                  LET b == IF do_black_check
                           THEN check_black_image(item.thumb, cfg.pil_available,
                                                  response, cfg.blackness_threshold)
                           ELSE BlackResult(FALSE, <<>>)
                      black == b.black
                      op == dispatch(suspicious, black, cfg.force_black_check)
                      outcome == IF op = "put_analyze" THEN put_analyze(put_status)
                                 ELSE IF op = "put_refresh" THEN put_refresh(put_status)
                                 ELSE "none"
                  IN  /\ evals' = Append(evals, [key |-> idx, suspicious |-> suspicious,
                                                 black |-> black])
                      /\ fetches' = fetches \o
                             [i \in 1..Len(b.requests) |->
                                 [key |-> idx, url |-> b.requests[i].url,
                                  outcome |-> b.requests[i].outcome,
                                  decodes |-> b.requests[i].decodes]]
                      /\ calls' = IF op = "none" THEN calls
                                  ELSE Append(calls, [op |-> op, key |-> idx,
                                                      outcome |-> outcome])
                      /\ pc' = IF outcome = "blocks" THEN "blocked" ELSE "loop"
                      /\ idx' = IF outcome = "blocks" THEN idx ELSE idx + 1
                      /\ UNCHANGED error
    /\ UNCHANGED <<listing, items, cfg, arg, ret>>

\* logger.info("=== Finished Script ===")
Finish ==
    /\ pc = "loop"
    /\ idx > Len(items)
    /\ pc' = "finished"
    /\ UNCHANGED <<listing, items, idx, cfg, error, time_checks, evals, fetches, calls, arg, ret>>

Next == FetchLibraryItems \/ ProcessItem \/ Finish

Spec == Init /\ [][Next]_vars

\* The run of main together with direct calls of check_black_image.
CoreInit == Init \/ BlackInit

CoreNext == Next \/ BlackNext

CoreSpec == CoreInit /\ [][CoreNext]_vars

(***************************************************************************)
(* Properties                                                              *)
(***************************************************************************)
CallsOf(op, key) ==
    Cardinality({i \in 1..Len(calls) : calls[i].op = op /\ calls[i].key = key})

FetchesOf(key) == Cardinality({i \in 1..Len(fetches) : fetches[i].key = key})

EvalsOf(key) == Cardinality({i \in 1..Len(evals) : evals[i].key = key})

\* The decision table of the specification, section 4.3.
TableAction(suspicious, black, forced) ==
    IF black /\ (suspicious \/ forced) THEN "ReAnalyze"
    ELSE IF suspicious /\ ~black THEN "Refresh"
    ELSE "NoAction"

\* The reference holds the letters n, o, n, e in a row, in either case.
MentionsNone(s) ==
    \E i \in 1..Len(s) :
        /\ i + 3 <= Len(s)
        /\ s[i] \in {"n", "N"} /\ s[i + 1] \in {"o", "O"}
        /\ s[i + 2] \in {"n", "N"} /\ s[i + 3] \in {"e", "E"}

UsableThumb(s) == Len(s) > 0 /\ ~MentionsNone(s)

ParsesAsNat(s) == Len(s) > 0 /\ \A i \in 1..Len(s) : s[i] \in DecimalChars

\* C1: every evaluated item gets exactly the call of the decision table: one
\* put_analyze iff black and (suspicious or forced), one put_refresh iff
\* suspicious and not black, otherwise no call; no item gets two calls.
C1_DecisionTable ==
    /\ \A k \in 1..Len(evals) :
         LET e == evals[k]
             a == TableAction(e.suspicious, e.black, cfg.force_black_check)
         IN  /\ CallsOf("put_analyze", e.key) = (IF a = "ReAnalyze" THEN 1 ELSE 0)
             /\ CallsOf("put_refresh", e.key) = (IF a = "Refresh" THEN 1 ELSE 0)
             /\ EvalsOf(e.key) = 1
    /\ \A key \in 1..Len(items) :
         /\ CallsOf("put_analyze", key) + CallsOf("put_refresh", key) <= 1
         /\ CallsOf("put_analyze", key) + CallsOf("put_refresh", key) > 0 => EvalsOf(key) = 1

C1_Witness ==
    /\ pc = "finished"
    /\ \E j, k \in 1..Len(evals) :
         /\ ~evals[j].suspicious /\ evals[j].black
         /\ CallsOf("put_analyze", evals[j].key) = 1
         /\ evals[k].suspicious /\ ~evals[k].black
         /\ CallsOf("put_refresh", evals[k].key) = 1

\* C2: a thumbnail is fetched only for an item that is suspicious or forced
\* and whose reference is non-empty and free of "none" in any case; in every
\* other case the item is not black and nothing is fetched; no item's
\* thumbnail is fetched twice.  The same holds of a direct call.
C2_FetchGating ==
    /\ \A i \in 1..Len(fetches) :
         LET key == fetches[i].key
         IN  /\ UsableThumb(items[key].thumb)
             /\ \E k \in 1..Len(evals) :
                  /\ evals[k].key = key
                  /\ evals[k].suspicious \/ cfg.force_black_check
    /\ \A k \in 1..Len(evals) :
         LET e == evals[k]
         IN  ~((e.suspicious \/ cfg.force_black_check) /\ UsableThumb(items[e.key].thumb))
             => ~e.black /\ FetchesOf(e.key) = 0
    /\ \A key \in 1..Len(items) : FetchesOf(key) <= 1
    /\ pc = "returned" =>
         /\ Len(ret.requests) <= 1
         /\ Len(ret.requests) = 1 => UsableThumb(arg.thumb_url)
         /\ ~UsableThumb(arg.thumb_url) => ~ret.black /\ Len(ret.requests) = 0

C2_Witness ==
    /\ pc = "finished"
    /\ cfg.force_black_check
    /\ \E j, k \in 1..Len(evals) :
         /\ FetchesOf(evals[j].key) = 1
         /\ MentionsNone(items[evals[k].key].thumb)
         /\ FetchesOf(evals[k].key) = 0

\* C5: a failed thumbnail fetch makes the check answer black whatever the
\* threshold, and a suspicious item whose fetch failed gets put_analyze and
\* no put_refresh.
C5_FetchFailureIsBlack ==
    /\ \A i \in 1..Len(fetches) :
         fetches[i].outcome # "ok" =>
           \A k \in 1..Len(evals) :
             evals[k].key = fetches[i].key =>
               /\ evals[k].black
               /\ evals[k].suspicious =>
                    /\ CallsOf("put_analyze", evals[k].key) = 1
                    /\ CallsOf("put_refresh", evals[k].key) = 0
    /\ (pc = "returned" /\ Len(ret.requests) = 1 /\ arg.response.status # "ok")
         => ret.black

C5_Witness ==
    /\ pc = "finished"
    /\ cfg.blackness_threshold = Fraction(3, 2)
    /\ \E i \in 1..Len(fetches), k \in 1..Len(evals) :
         /\ fetches[i].outcome # "ok"
         /\ evals[k].key = fetches[i].key
         /\ evals[k].suspicious
         /\ CallsOf("put_analyze", evals[k].key) = 1

\* C6: thumbnail bytes that were fetched but do not decode make the check
\* answer not black whatever the threshold; such an item gets put_refresh when
\* suspicious and no call when it is not.
C6_DecodeFailureIsNotBlack ==
    /\ \A i \in 1..Len(fetches) :
         (fetches[i].outcome = "ok" /\ ~fetches[i].decodes) =>
           \A k \in 1..Len(evals) :
             evals[k].key = fetches[i].key =>
               /\ ~evals[k].black
               /\ CallsOf("put_analyze", evals[k].key) = 0
               /\ CallsOf("put_refresh", evals[k].key)
                    = (IF evals[k].suspicious THEN 1 ELSE 0)
    /\ (pc = "returned" /\ Len(ret.requests) = 1 /\ arg.response.status = "ok"
          /\ ~arg.response.decodes)
         => ~ret.black

C6_Witness ==
    /\ pc = "finished"
    /\ cfg.blackness_threshold = Fraction(0, 1)
    /\ \E i, j \in 1..Len(fetches) :
         /\ fetches[i].outcome = "ok" /\ ~fetches[i].decodes
         /\ fetches[j].outcome = "ok" /\ ~fetches[j].decodes
         /\ CallsOf("put_refresh", fetches[i].key) = 1
         /\ CallsOf("put_refresh", fetches[j].key) = 0

\* C7: for a fetched and decoded image the check answers not black when the
\* image has no pixel, and otherwise black iff pixels at level 0 over all
\* pixels is at least the threshold; an image wholly at level 0 is black for
\* every threshold up to 1, an image with no pixel at level 0 is not black for
\* every threshold above 0.
C7_BlackRatio ==
    (pc = "returned" /\ Len(ret.requests) = 1 /\ arg.response.status = "ok"
       /\ arg.response.decodes) =>
      LET h == arg.response.hist
          total == sum(h)
          th == arg.blackness_threshold
      IN  /\ total = 0 => ~ret.black
          /\ total > 0 => (ret.black <=> h[0] * th.den >= th.num * total)
          /\ (total > 0 /\ h[0] = total /\ th.num <= th.den) => ret.black
          /\ (total > 0 /\ h[0] = 0 /\ th.num > 0) => ~ret.black

C7_Witness ==
    /\ pc = "returned" /\ Len(ret.requests) = 1
    /\ arg.response.status = "ok" /\ arg.response.decodes
    /\ arg.response.hist[0] > 0
    /\ sum(arg.response.hist) > arg.response.hist[0]
    /\ arg.response.hist[0] * arg.blackness_threshold.den
         = arg.blackness_threshold.num * sum(arg.response.hist)
    /\ ret.black

\* C3: for timestamps that both parse as non-negative integers,
\* check_time_diff returns true iff updatedAt - addedAt, the exact difference
\* of the two Unix timestamps, is below the threshold.
C3_ExactDifference ==
    (pc = "returned" /\ ParsesAsNat(arg.added_str) /\ ParsesAsNat(arg.updated_str)) =>
      /\ ret.exc = "none"
      /\ ret.val = (DecimalOf(arg.updated_str) - DecimalOf(arg.added_str)
                      < time_diff_sec(arg.minutes))

\* C4: check_time_diff never raises, and returns false whenever a timestamp
\* is empty or does not parse as a non-negative integer.
C4_FailsClosedNeverRaises ==
    pc = "returned" =>
      /\ ret.exc = "none"
      /\ (~ParsesAsNat(arg.added_str) \/ ~ParsesAsNat(arg.updated_str)) => ~ret.val

\* C8: for every catalog the item source returned, the run ends finished with
\* every item evaluated exactly once, in catalog order.
C8_EveryItemEvaluated ==
    (pc \in {"finished", "crashed", "blocked"} /\ listing \in {"ok", "RequestException"}) =>
      /\ pc = "finished"
      /\ time_checks = [i \in 1..Len(items) |-> i]
      /\ [k \in 1..Len(evals) |-> evals[k].key] = [i \in 1..Len(items) |-> i]

\* C9: no error ends the run abnormally, and a failed listing gives an empty
\* item sequence, no temporal check, no fetch, no call, and a finished run.
C9_NoFatalError ==
    /\ pc # "crashed"
    /\ listing \notin {"none", "ok"} =>
         /\ items = <<>> /\ time_checks = <<>> /\ fetches = <<>> /\ calls = <<>>
         /\ pc \in {"loop", "finished"}

\* C10: no thumbnail fetch and no action call waits forever on a server
\* that never answers.
C10_NoCallBlocks == pc # "blocked"

====
